---- MODULE Spec2Model ----
(***************************************************************************)
(* Device Downtime Analyzer (src/abc.py): the CSV normalisation            *)
(* (process_csv), the downtime computation (calculate_downtime) and the    *)
(* Streamlit script run that calls them through st.cache_data.             *)
(*                                                                         *)
(* Time is counted in ticks of half a second, so that the rounding to      *)
(* whole seconds done by the summary is not the identity.  A value that    *)
(* pandas may hold as NaT/NaN is an option: <<>> when absent, <<v>> when   *)
(* present.                                                                *)
(***************************************************************************)
EXTENDS Integers, Sequences, FiniteSets, TLC

\* ---------------------------------------------------------------- bounds
MaxRows == 3
MaxTime == 2
MaxNow == 2
MaxSkew == 1
MaxRuns == 2

TicksPerSecond == 2

\* ------------------------------------------------------- absent values
NaT == <<>>
NaN == <<>>
None == <<>>
Some(v) == <<v>>
notna(x) == x # <<>>
isna(x) == x = <<>>

\* a - b on options: NaT/NaN propagates
Minus(a, b) == IF notna(a) /\ notna(b) THEN Some(a[1] - b[1]) ELSE NaN

\* ------------------------------------------------------------ raw input
DeviceNames == <<"D1", "D2">>
Devices == {DeviceNames[i] : i \in 1..Len(DeviceNames)}
DeviceRank(d) == CHOOSE i \in 1..Len(DeviceNames) : DeviceNames[i] = d

TypeLabels == {"encoding_online", "encoding_offline", "encoding_status", "heartbeat_online"}

\* Series.str.contains(marker, case=False, na=False) on the labels above
Markers(label) ==
    CASE label = "encoding_online"  -> {"encoding", "online"}
      [] label = "encoding_offline" -> {"encoding", "offline"}
      [] label = "encoding_status"  -> {"encoding"}
      [] label = "heartbeat_online" -> {"online"}
      [] OTHER -> {}
str_contains(label, marker) == marker \in Markers(label)

\* The text of a Record Time cell: a day-first date-time at tick `tick`, or
\* text that is no date-time.
TimeTexts ==
    [valid : {TRUE}, tick : 1..MaxTime] \cup {[valid |-> FALSE, tick |-> 0]}

RawRecords == [Device_Name : Devices, Record_Time : TimeTexts, Type : TypeLabels]

\* the CSV files of n rows
Files(n) == [1..n -> RawRecords]

\* the columns process_csv looks up by name
RequiredColumns == {"Device_Name", "Record_Time", "Type"}

\* the headers a CSV file can have, as far as these columns go
Headers == SUBSET RequiredColumns

\* the CSV files of n rows whose header is `columns`: each row has a cell
\* for every column of the header and for no other
FilesWith(columns, n) ==
    IF columns = RequiredColumns THEN Files(n)
    ELSE [1..n -> {[c \in columns |-> r[c]] : r \in RawRecords}]

\* the column whose lookup raises KeyError in the body of process_csv:
\* df['Record Time'] (line 140) is the first lookup, df['Type'] (line 148)
\* the next, sort_values(by=['Device Name', ...]) (line 157) the last; the
\* lookup of 'Device Name' at line 135 is guarded.  None when all succeed.
KeyError(columns) ==
    IF "Record_Time" \notin columns THEN Some("Record_Time")
    ELSE IF "Type" \notin columns THEN Some("Type")
    ELSE IF "Device_Name" \notin columns THEN Some("Device_Name")
    ELSE None

\* The sidebar's window: None is "All Data" (date_range_start and
\* date_range_end both None), else an inclusive <<start, end>>.
DateRanges == {None, Some(<<1, 1>>)}

\* ---------------------------------------------------------- process_csv
\* pd.to_datetime(..., dayfirst=True, errors='coerce')
to_datetime(text) == IF text.valid THEN Some(text.tick) ELSE NaT

status_of(label) ==
    LET s0 == "unknown"
        s1 == IF str_contains(label, "online") THEN "online" ELSE s0
        s2 == IF str_contains(label, "offline") THEN "offline" ELSE s1
    IN  s2

\* sort key order of sort_values(by=['Device Name', 'Record Time']): NaT last
KeyLess(a, b) ==
    \/ DeviceRank(a.Device_Name) < DeviceRank(b.Device_Name)
    \/ /\ a.Device_Name = b.Device_Name
       /\ notna(a.Record_Time)
       /\ (isna(b.Record_Time) \/ a.Record_Time[1] < b.Record_Time[1])

KeyEq(a, b) == ~KeyLess(a, b) /\ ~KeyLess(b, a)

\* stable ascending sort
sort_values(rows) ==
    LET n == Len(rows)
        Pos(i) == 1 + Cardinality({j \in 1..n :
                        \/ KeyLess(rows[j], rows[i])
                        \/ (KeyEq(rows[j], rows[i]) /\ j < i)})
    IN  [p \in 1..n |-> rows[CHOOSE i \in 1..n : Pos(i) = p]]

InRange(row, range) ==
    /\ notna(row.Record_Time)
    /\ row.Record_Time[1] >= range[1][1]
    /\ row.Record_Time[1] <= range[1][2]

process_csv(file, range) ==
    LET parsed == [i \in 1..Len(file) |->
                      [Device_Name |-> file[i].Device_Name,
                       Record_Time |-> to_datetime(file[i].Record_Time),
                       Type |-> file[i].Type]]
        IsEncoding(r) == str_contains(r.Type, "encoding")
        encoding == SelectSeq(parsed, IsEncoding)
        withStatus == [i \in 1..Len(encoding) |->
                      [Device_Name |-> encoding[i].Device_Name,
                       Record_Time |-> encoding[i].Record_Time,
                       status |-> status_of(encoding[i].Type)]]
        sorted == sort_values(withStatus)
        Keep(r) == InRange(r, range)
    IN  IF range # None THEN SelectSeq(sorted, Keep) ELSE sorted

\* --------------------------------------------------- calculate_downtime
\* groupby('Device Name')[col].shift(-1) and .shift(1): the neighbours of
\* row i among the rows of its own device; 0 when there is none
\* a slip that pairs each row with the next row of the frame, whatever its
\* device (a shift without the groupby)
NextIdx_AnyDevice(df, i) ==
    IF i < Len(df) THEN i + 1 ELSE 0

NextIdx(df, i) ==
    LET later == {j \in (i + 1)..Len(df) : df[j].Device_Name = df[i].Device_Name}
    IN  IF later = {} THEN 0 ELSE CHOOSE j \in later : \A k \in later : j <= k

PrevIdx(df, i) ==
    LET earlier == {j \in 1..(i - 1) : df[j].Device_Name = df[i].Device_Name}
    IN  IF earlier = {} THEN 0 ELSE CHOOSE j \in earlier : \A k \in earlier : j >= k

next_status(df, i) == IF NextIdx(df, i) = 0 THEN NaN ELSE Some(df[NextIdx(df, i)].status)
next_time(df, i) == IF NextIdx(df, i) = 0 THEN NaT ELSE df[NextIdx(df, i)].Record_Time
prev_status(df, i) == IF PrevIdx(df, i) = 0 THEN NaN ELSE Some(df[PrevIdx(df, i)].status)

\* a slip that keeps every row that is not online
IsIntervalRow_KeepsUnknown(row) == row.status # "online"

\* .loc[lambda x: x['status'] == 'offline']
IsIntervalRow(row) == row.status = "offline"

\* the row of df_downtime built from row i of df (lines 188-206)
RawInterval(df, i) ==
    [Device |-> df[i].Device_Name,
     Offline_Time |-> df[i].Record_Time,
     Online_Time |-> next_time(df, i),
     Downtime_Seconds |->
        IF next_status(df, i) = Some("online")
        THEN Minus(next_time(df, i), df[i].Record_Time)
        ELSE NaN,
     Downtime_Status |->
        IF next_status(df, i) = Some("online") THEN "Completed"
        ELSE IF prev_status(df, i) = Some("online") THEN "Ongoing"
        ELSE "Intermediate"]

RECURSIVE RawIntervalsFrom(_, _)
RawIntervalsFrom(df, i) ==
    IF i > Len(df) THEN <<>>
    ELSE (IF IsIntervalRow(df[i]) THEN <<RawInterval(df, i)>> ELSE <<>>)
         \o RawIntervalsFrom(df, i + 1)

RawIntervals(df) == RawIntervalsFrom(df, 1)

\* a slip that leaves the provisional status of every row as it is
FixMisclassified_Skipped(row) ==
    row

\* "Fix misclassified records" (lines 209-211)
FixMisclassified(row) ==
    IF notna(row.Online_Time) /\ row.Downtime_Status = "Ongoing"
    THEN [row EXCEPT !.Downtime_Status = "Completed"]
    ELSE row

recalculate_downtime(row, current_time) ==
    IF row.Downtime_Status = "Completed" THEN row.Downtime_Seconds
    ELSE IF notna(row.Online_Time) THEN Minus(row.Online_Time, row.Offline_Time)
    ELSE Minus(Some(current_time), row.Offline_Time)

\* int(seconds): truncation toward zero of a duration held in ticks
IntSeconds(ticks) ==
    IF ticks >= 0 THEN ticks \div TicksPerSecond
    ELSE 0 - ((0 - ticks) \div TicksPerSecond)

\* the text "{days}d HH:MM:SS" / "HH:MM:SS" as its fields; "" is <<>>
format_duration(seconds) ==
    IF isna(seconds) \/ seconds[1] = 0 THEN <<>>
    ELSE LET s == IntSeconds(seconds[1])
             days == s \div 86400
             hours == (s % 86400) \div 3600
             minutes == (s % 3600) \div 60
             secs == s % 60
         IN  IF days > 0 THEN <<days, hours, minutes, secs>>
             ELSE <<hours, minutes, secs>>

\* Series.round(0) of a duration held in ticks: nearest whole second, a
\* half rounds to the even second
Round0(ticks) ==
    LET q == ticks \div TicksPerSecond
        r == ticks % TicksPerSecond
    IN  IF 2 * r < TicksPerSecond THEN q * TicksPerSecond
        ELSE IF 2 * r > TicksPerSecond THEN (q + 1) * TicksPerSecond
        ELSE (IF q % 2 = 0 THEN q ELSE q + 1) * TicksPerSecond

RoundOpt(x) == IF isna(x) THEN NaN ELSE Some(Round0(x[1]))

\* the resolved interval table before the display relabelling (lines 209-225)
ResolvedIntervals(df, current_time) ==
    LET raw == RawIntervals(df)
        fixed == [i \in 1..Len(raw) |-> FixMisclassified(raw[i])]
    IN  [i \in 1..Len(fixed) |->
            LET secs == recalculate_downtime(fixed[i], current_time)
            IN  [Device |-> fixed[i].Device,
                 Offline_Time |-> fixed[i].Offline_Time,
                 Online_Time |-> fixed[i].Online_Time,
                 Downtime_Seconds |-> secs,
                 Downtime_Duration |-> format_duration(secs),
                 Downtime_Status |-> fixed[i].Downtime_Status]]

\* --------------------------------------------------------------- summary
\* GroupBy 'last' of a column: the last value that is not null, else null
LastNotNull(vals) ==
    LET present == {i \in 1..Len(vals) : notna(vals[i])}
    IN  IF present = {} THEN NaT
        ELSE vals[CHOOSE i \in present : \A k \in present : i >= k]

\* GroupBy 'count': the number of values that are not null
CountNotNull(vals) == Cardinality({i \in 1..Len(vals) : notna(vals[i])})

\* GroupBy 'sum': nulls are skipped, 0 when all are
RECURSIVE SumNotNull(_)
SumNotNull(vals) ==
    IF vals = <<>> THEN 0
    ELSE (IF notna(Head(vals)) THEN Head(vals)[1] ELSE 0) + SumNotNull(Tail(vals))

\* lambda x: (x == 'Ongoing').sum()
OngoingCount(rows) ==
    Cardinality({i \in 1..Len(rows) : rows[i].Downtime_Status = "Ongoing"})

\* np.maximum(a, b): NaN when either is NaN
Maximum(a, b) ==
    IF isna(a) \/ isna(b) THEN NaN
    ELSE IF a[1] >= b[1] THEN a ELSE b

Column(rows, f) == [i \in 1..Len(rows) |-> rows[i][f]]

\* the summary row of one device, all columns of lines 230-265
SummaryRow(d, rows, analysis_time) ==
    LET ongoing == OngoingCount(rows)
        lastOff == LastNotNull(Column(rows, "Offline_Time"))
        lastOn == LastNotNull(Column(rows, "Online_Time"))
        total0 == Some(Round0(SumNotNull(Column(rows, "Downtime_Seconds"))))
        current == IF ongoing > 0
                   THEN RoundOpt(Minus(Some(analysis_time), lastOff))
                   ELSE NaN
        total == IF ongoing > 0 THEN Maximum(total0, current) ELSE total0
    IN  [Device |-> d,
         Current_Status |-> IF ongoing > 0 THEN "Offline" ELSE "Online",
         Ongoing_Count |-> ongoing,
         Last_Offline_Time |-> lastOff,
         Last_Online_Time |-> lastOn,
         Total_DownTime_Events |-> CountNotNull(Column(rows, "Downtime_Seconds")),
         Total_Downtime_Seconds |-> total,
         Current_Downtime_Seconds |-> current,
         Current_Downtime_Duration |-> format_duration(current),
         Total_Downtime_Duration |-> format_duration(total)]

\* df_downtime.groupby('Device'): one row per device that has intervals, in
\* the order of the group keys
RECURSIVE SummaryFrom(_, _, _)
SummaryFrom(k, intervals, analysis_time) ==
    IF k > Len(DeviceNames) THEN <<>>
    ELSE LET d == DeviceNames[k]
             OfDevice(r) == r.Device = d
             rows == SelectSeq(intervals, OfDevice)
         IN  (IF rows = <<>> THEN <<>> ELSE <<SummaryRow(d, rows, analysis_time)>>)
             \o SummaryFrom(k + 1, intervals, analysis_time)

Summary(intervals, analysis_time) == SummaryFrom(1, intervals, analysis_time)

\* "Select final columns" (lines 268-269)
FinalColumns(row) ==
    [Device |-> row.Device,
     Current_Status |-> row.Current_Status,
     Ongoing_Count |-> row.Ongoing_Count,
     Last_Offline_Time |-> row.Last_Offline_Time,
     Total_DownTime_Events |-> row.Total_DownTime_Events,
     Current_Downtime_Duration |-> row.Current_Downtime_Duration,
     Total_Downtime_Duration |-> row.Total_Downtime_Duration]

\* "Format Downtime_Status for display" (lines 272-273)
DisplayStatus(row) ==
    [row EXCEPT !.Downtime_Status =
        IF row.Downtime_Status = "Ongoing" THEN "Ongoing" ELSE "Completed"]

EmptyResult ==
    [summary |-> <<>>, df_downtime |-> <<>>, agg |-> <<>>, resolved |-> <<>>,
     current_time |-> None, analysis_time |-> None]

\* One execution of the body of calculate_downtime with its two clock
\* readings.  summary and df_downtime are the two frames returned; resolved
\* and agg are the same frames before the display relabelling and the
\* column selection, and current_time and analysis_time the two readings
\* of pd.Timestamp.now(): the locals that the internal fields live in.
calculate_downtime(df, current_time, analysis_time) ==
    LET resolved == ResolvedIntervals(df, current_time)
        agg == Summary(resolved, analysis_time)
    IN  IF df = <<>> \/ resolved = <<>> THEN EmptyResult
        ELSE [summary |-> [i \in 1..Len(agg) |-> FinalColumns(agg[i])],
              df_downtime |-> [i \in 1..Len(resolved) |-> DisplayStatus(resolved[i])],
              agg |-> agg,
              resolved |-> resolved,
              current_time |-> Some(current_time),
              analysis_time |-> Some(analysis_time)]

\* ------------------------------------------------------------ the app
VARIABLES
    uploaded_file,  \* None, or Some(rows of the uploaded CSV)
    date_range,     \* None, or Some(<<date_range_start, date_range_end>>)
    now,            \* the wall clock, in ticks
    cache,          \* st.cache_data of calculate_downtime: df -> returned value
    df,             \* the frame process_csv returned to the last script run
    result,         \* what calculate_downtime returned to the last script run
    invoked_at,     \* the clock when the last script run called calculate_downtime
    runs,           \* the number of script runs so far
    columns,        \* the header of the uploaded CSV ({} while there is none)
    st_error,       \* None, or Some(column named by process_csv's st.error)
    df_is_None,     \* process_csv returned (None, None, 0) to the last script run
    branch          \* the part of the page the last script run rendered

vars == <<uploaded_file, date_range, now, cache, df, result, invoked_at, runs,
          columns, st_error, df_is_None, branch>>

Min(a, b) == IF a <= b THEN a ELSE b

Init ==
    /\ uploaded_file = None
    /\ date_range = None
    /\ now = 0
    /\ cache = <<>>
    /\ df = <<>>
    /\ result = EmptyResult
    /\ invoked_at = None
    /\ runs = 0
    /\ columns = {}
    /\ st_error = None
    /\ df_is_None = FALSE
    /\ branch = "landing"

\* st.cache_data: a call with an argument seen before returns the stored
\* value and does not execute the body; otherwise the body runs, reading the
\* clock twice, and its value is stored.
CachedCalculateDowntime(d) ==
    IF d \in DOMAIN cache
    THEN /\ result' = cache[d]
         /\ UNCHANGED <<cache, now>>
    ELSE \E analysis_time \in now..Min(now + MaxSkew, MaxNow) :
            LET r == calculate_downtime(d, now, analysis_time)
            IN  /\ result' = r
                /\ cache' = [k \in DOMAIN cache \cup {d} |->
                                IF k = d THEN r ELSE cache[k]]
                /\ now' = analysis_time

\* the main content area of one script run (lines 391-417).  process_csv is
\* cached too, but it reads no clock: its stored value is the value a fresh
\* execution returns, so its cache is not part of the state.
\* When a lookup raises, the except clause of process_csv (lines 168-170)
\* shows st.error with the exception's text, which for a KeyError is the
\* column's name, and returns (None, None, 0): nothing is raised to the
\* caller, whose test at line 414 sends both None and an empty frame to the
\* warning of lines 656-657.
ScriptRun(header, file, range) ==
    /\ runs' = runs + 1
    /\ IF file = None
       THEN /\ branch' = "landing"
            /\ UNCHANGED <<now, cache, df, result, invoked_at, st_error, df_is_None>>
       ELSE IF KeyError(header) # None
       THEN /\ st_error' = KeyError(header)
            /\ df_is_None' = TRUE
            /\ df' = <<>>
            /\ branch' = "no_data"
            /\ invoked_at' = None
            /\ result' = EmptyResult
            /\ UNCHANGED <<now, cache>>
       ELSE LET d == process_csv(file[1], range)
            IN  /\ st_error' = None
                /\ df_is_None' = FALSE
                /\ df' = d
                /\ IF d # <<>>
                   THEN /\ branch' = "analysis"
                        /\ invoked_at' = Some(now)
                        /\ CachedCalculateDowntime(d)
                   ELSE /\ branch' = "no_data"
                        /\ invoked_at' = None
                        /\ result' = EmptyResult
                        /\ UNCHANGED <<now, cache>>

\* st.file_uploader delivers a file: the script runs with it
Upload(header, f) ==
    /\ runs < MaxRuns
    /\ uploaded_file = None
    /\ uploaded_file' = Some(f)
    /\ columns' = header
    /\ UNCHANGED date_range
    /\ ScriptRun(header, Some(f), date_range)

\* the period selectbox changes: the script runs with the new window
SelectDateOption(r) ==
    /\ runs < MaxRuns
    /\ r # date_range
    /\ date_range' = r
    /\ UNCHANGED <<uploaded_file, columns>>
    /\ ScriptRun(columns, uploaded_file, r)

\* st.rerun() or any other widget interaction: the script runs again
Rerun ==
    /\ runs < MaxRuns
    /\ uploaded_file # None
    /\ UNCHANGED <<uploaded_file, date_range, columns>>
    /\ ScriptRun(columns, uploaded_file, date_range)

\* wall-clock time passes between script runs
Tick ==
    /\ now < MaxNow
    /\ now' = now + 1
    /\ UNCHANGED <<uploaded_file, date_range, cache, df, result, invoked_at, runs,
                   columns, st_error, df_is_None, branch>>

Next ==
    \/ (uploaded_file = None
            /\ \E header \in Headers : \E n \in 0..MaxRows :
                  \E f \in FilesWith(header, n) : Upload(header, f))
    \/ \E r \in DateRanges : SelectDateOption(r)
    \/ Rerun
    \/ Tick

Spec == Init /\ [][Next]_vars

\* ------------------------------------------------------------- claims
\* The tables the claims read: the events are the rows of df, the intervals
\* the rows of result.resolved, the summary the rows of result.agg.
Events == df
Intervals == result.resolved
SummaryRows == result.agg

IsOffline(e) == e.status = "offline"
OfflineIndices == {i \in 1..Len(Events) : IsOffline(Events[i])}

\* the index in Events of the offline event that interval k was made from
EventOf(k) ==
    CHOOSE i \in OfflineIndices :
        Cardinality({j \in OfflineIndices : j <= i}) = k

IntervalsOf(d) == {k \in 1..Len(Intervals) : Intervals[k].Device = d}
EventsOf(d) == {i \in 1..Len(Events) : Events[i].Device_Name = d}
SummaryOf(d) == {n \in 1..Len(SummaryRows) : SummaryRows[n].Device = d}

\* the last event of device d in its ordered sequence
LastEventOf(d) == CHOOSE i \in EventsOf(d) : \A j \in EventsOf(d) : j <= i

\* C1: every interval's online_at is the timestamp of the device's next
\* event when that event is online, and is absent in every other case.
C1_OnlineAtOnlyFromOnlineSuccessor ==
    \A k \in 1..Len(Intervals) :
        LET n == NextIdx(Events, EventOf(k))
        IN  Intervals[k].Online_Time =
                IF n # 0 /\ Events[n].status = "online"
                THEN Events[n].Record_Time
                ELSE NaT

\* C2: every Completed interval has duration_seconds = online_at -
\* offline_at, the reclassified ones included.
C2_CompletedHasDuration ==
    \A k \in 1..Len(Intervals) :
        Intervals[k].Downtime_Status = "Completed"
            => Intervals[k].Downtime_Seconds =
                   Minus(Intervals[k].Online_Time, Intervals[k].Offline_Time)

\* every event carries a timestamp: the event sets of the specification,
\* in which no record with unparsable timestamp text is an event
AllParsed == \A i \in 1..Len(Events) : notna(Events[i].Record_Time)

\* C3: total_events of a device is the number of its intervals (stated for
\* event sets whose timestamps all parsed).
C3_TotalEventsCountsIntervals ==
    AllParsed =>
        \A n \in 1..Len(SummaryRows) :
            SummaryRows[n].Total_DownTime_Events =
                Cardinality(IntervalsOf(SummaryRows[n].Device))

\* the devices whose ordered event sequence ends with an offline event
EndsOffline(d) == EventsOf(d) # {} /\ IsOffline(Events[LastEventOf(d)])

\* the interval made from event i
IntervalOfEvent(i) == CHOOSE k \in 1..Len(Intervals) : EventOf(k) = i

\* C4: a device whose sequence ends with an offline event has, for that
\* event, an interval with online_at absent, status Ongoing if the preceding
\* event was online and Intermediate otherwise, and current_downtime_seconds
\* equal to the analysis instant minus that offline_at, to the second
\* (stated for event sets whose timestamps all parsed).
C4_OngoingTail ==
    AllParsed =>
        \A d \in Devices :
            EndsOffline(d) =>
                LET i == LastEventOf(d)
                    iv == Intervals[IntervalOfEvent(i)]
                IN  /\ isna(iv.Online_Time)
                    /\ iv.Downtime_Status =
                          IF prev_status(Events, i) = Some("online")
                          THEN "Ongoing" ELSE "Intermediate"
                    /\ \E n \in SummaryOf(d) :
                          SummaryRows[n].Current_Downtime_Seconds =
                              RoundOpt(Minus(result.analysis_time, iv.Offline_Time))

\* the intervals of device d with the greatest offline_at
GreatestOffline(d) ==
    {k \in IntervalsOf(d) :
        /\ notna(Intervals[k].Offline_Time)
        /\ \A j \in IntervalsOf(d) :
              notna(Intervals[j].Offline_Time)
                  => Intervals[j].Offline_Time[1] <= Intervals[k].Offline_Time[1]}

\* C5: last_offline_at and last_online_at of a device are both taken from
\* one interval, the device's interval with the greatest offline_at (stated
\* for event sets whose timestamps all parsed).
C5_LastTimesFromOneInterval ==
    AllParsed =>
        \A n \in 1..Len(SummaryRows) :
            \E k \in GreatestOffline(SummaryRows[n].Device) :
                /\ SummaryRows[n].Last_Offline_Time = Intervals[k].Offline_Time
                /\ SummaryRows[n].Last_Online_Time = Intervals[k].Online_Time

\* a >= b on values that may be NaN: a comparison with NaN is false
Ge(a, b) == notna(a) /\ notna(b) /\ a[1] >= b[1]

\* C6: for every device with ongoing_count > 0, total_downtime_seconds >=
\* current_downtime_seconds after aggregation (the aggregation reading of
\* the clock is never earlier than the resolution reading).
C6_TotalAtLeastCurrent ==
    \A n \in 1..Len(SummaryRows) :
        SummaryRows[n].Ongoing_Count > 0
            => Ge(SummaryRows[n].Total_Downtime_Seconds,
                  SummaryRows[n].Current_Downtime_Seconds)

OfflineEvents == SelectSeq(Events, IsOffline)

\* C7: exactly one interval per offline event and none for online or
\* unknown events: the intervals are, in order, the offline events, each
\* with the device of its event and offline_at the timestamp of its event,
\* in the resolved table and in the returned one.
C7_OneIntervalPerOfflineEvent ==
    /\ Len(Intervals) = Len(OfflineEvents)
    /\ Len(result.df_downtime) = Len(OfflineEvents)
    /\ \A k \in 1..Len(Intervals) :
          /\ Intervals[k].Device = OfflineEvents[k].Device_Name
          /\ Intervals[k].Offline_Time = OfflineEvents[k].Record_Time
          /\ result.df_downtime[k].Device = OfflineEvents[k].Device_Name
          /\ result.df_downtime[k].Offline_Time = OfflineEvents[k].Record_Time
    /\ \A d \in Devices :
          Cardinality(IntervalsOf(d)) =
              Cardinality({i \in EventsOf(d) : IsOffline(Events[i])})

\* C7 witness: a run over two offline events of one device and an event of
\* status unknown produced that device's two intervals and no third.
C7_Witness ==
    /\ \E u \in 1..Len(Events) : Events[u].status = "unknown"
    /\ \E d \in Devices : Cardinality(IntervalsOf(d)) = 2
    /\ Len(Intervals) = 2
    /\ Len(Events) = 3

\* C8: a record whose timestamp text cannot be parsed is excluded: no event
\* has an absent timestamp, so none is a neighbour of another event, and no
\* interval has an absent offline_at, with or without a time window.
C8_UnparsableExcluded ==
    /\ \A i \in 1..Len(Events) : notna(Events[i].Record_Time)
    /\ \A k \in 1..Len(Intervals) : notna(Intervals[k].Offline_Time)

\* device d has an online event after event i in its ordered sequence
OnlineAfter(i) ==
    \E j \in EventsOf(Events[i].Device_Name) :
        j > i /\ Events[j].status = "online"

\* C9: an interval is Ongoing iff its device has no online event after the
\* interval's offline event; so a device whose latest event is offline is
\* reported Offline (stated for event sets whose timestamps all parsed).
C9_OngoingIffNotBackOnline ==
    AllParsed =>
        /\ \A k \in 1..Len(Intervals) :
              (Intervals[k].Downtime_Status = "Ongoing") <=> ~OnlineAfter(EventOf(k))
        /\ \A d \in Devices :
              EndsOffline(d) =>
                  \E n \in SummaryOf(d) : SummaryRows[n].Current_Status = "Offline"

\* the frames of a result
Frames(r) == <<r.summary, r.df_downtime, r.agg, r.resolved>>

\* C10: every call of calculate_downtime rebuilds the tables with clock
\* readings taken during that call: after a script run that called it at
\* invoked_at, the tables are those of an execution whose two readings lie
\* between invoked_at and now.
C10_RebuiltOnEveryInvocation ==
    invoked_at # None =>
        \E t1 \in invoked_at[1]..now :
            \E t2 \in t1..now :
                Frames(result) = Frames(calculate_downtime(df, t1, t2))

\* C11: every resolved interval has duration_seconds >= 0 and every summary
\* row total_downtime_seconds >= 0, also when event timestamps lie after
\* the analysis instant (stated for the durations and totals that are
\* present).
C11_DurationsNonNegative ==
    /\ \A k \in 1..Len(Intervals) :
          notna(Intervals[k].Downtime_Seconds)
              => Intervals[k].Downtime_Seconds[1] >= 0
    /\ \A n \in 1..Len(SummaryRows) :
          notna(SummaryRows[n].Total_Downtime_Seconds)
              => SummaryRows[n].Total_Downtime_Seconds[1] >= 0

\* the rows of a frame (or the records of a file) that belong to device d
OfDevice(rows, d) == SelectSeq(rows, LAMBDA r : r.Device = d)
RecordsOf(file, d) == SelectSeq(file, LAMBDA r : r.Device_Name = d)

\* the analysis of device d's records alone, at the instants of the
\* analysis that produced the current result
AloneResult(d) ==
    LET alone == process_csv(RecordsOf(uploaded_file[1], d), date_range)
    IN  IF alone = <<>> THEN EmptyResult
        ELSE calculate_downtime(alone, result.current_time[1],
                                result.analysis_time[1])

\* C12: the intervals and the summary row computed for a device depend
\* only on that device's own events: they are the ones computed, at the
\* same analysis instant, from the input reduced to that device's records,
\* whatever the other devices' records are.
C12_DeviceIndependent ==
    result.current_time # None =>
        \A d \in Devices :
            LET alone == AloneResult(d)
            IN  /\ OfDevice(result.resolved, d) = OfDevice(alone.resolved, d)
                /\ OfDevice(result.df_downtime, d) = OfDevice(alone.df_downtime, d)
                /\ OfDevice(result.agg, d) = OfDevice(alone.agg, d)
                /\ OfDevice(result.summary, d) = OfDevice(alone.summary, d)

\* two devices with events interleaved in time: D1's last event is offline
\* and is followed in the frame by an online event of D2 whose timestamp
\* lies between D1's timestamps
C12_Witness ==
    /\ result.current_time # None
    /\ Len(Events) = 3
    /\ Events[1].Device_Name = "D1" /\ Events[2].Device_Name = "D1"
    /\ Events[3].Device_Name = "D2"
    /\ Events[1].Record_Time = Some(1) /\ Events[2].Record_Time = Some(2)
    /\ Events[2].status = "offline"
    /\ Events[3].status = "online" /\ Events[3].Record_Time = Some(2)
    /\ \E k \in IntervalsOf("D1") : Intervals[k].Online_Time = NaT
    /\ SummaryOf("D1") # {} /\ SummaryOf("D2") = {}

\* the intervals as extracted, with their provisional status
Provisional == RawIntervals(Events)

\* interval k was provisionally Ongoing although its online_at is present
Reclassified(k) ==
    /\ Provisional[k].Downtime_Status = "Ongoing"
    /\ notna(Provisional[k].Online_Time)

\* C13: after classification no interval is Ongoing with online_at
\* present; every interval that was provisionally Ongoing with online_at
\* present is Completed in the resolved table, and ongoing_count of each
\* device counts only its provisionally Ongoing intervals without
\* online_at.
C13_NoOngoingWithOnlineAt ==
    /\ Len(Intervals) > 0 => Len(Provisional) = Len(Intervals)
    /\ \A k \in 1..Len(Intervals) :
          /\ ~(Intervals[k].Downtime_Status = "Ongoing"
                  /\ notna(Intervals[k].Online_Time))
          /\ Reclassified(k) => Intervals[k].Downtime_Status = "Completed"
    /\ \A n \in 1..Len(SummaryRows) :
          SummaryRows[n].Ongoing_Count =
              Cardinality({k \in IntervalsOf(SummaryRows[n].Device) :
                              /\ Provisional[k].Downtime_Status = "Ongoing"
                              /\ ~Reclassified(k)})

\* a device with two intervals, one of them reclassified from Ongoing to
\* Completed
C13_Witness ==
    \E k \in 1..Len(Intervals) : \E n \in 1..Len(SummaryRows) :
        /\ Reclassified(k)
        /\ Intervals[k].Downtime_Status = "Completed"
        /\ SummaryRows[n].Device = Intervals[k].Device
        /\ Cardinality(IntervalsOf(Intervals[k].Device)) = 2

\* the uploaded file lacks a column that process_csv looks up
LacksField == uploaded_file # None /\ columns # RequiredColumns

\* C14: when the input lacks a required field, the ingestion call reports
\* an error that names an absent field, and what reaches its caller is not
\* the outcome of an event set that is empty after filtering: the caller
\* does not go on as it does for "no data".
C14_MissingFieldSurfaced ==
    LacksField =>
        /\ \E c \in RequiredColumns \ columns : st_error = Some(c)
        /\ branch # "no_data"

\* the intervals of device d whose internal status is Ongoing
OngoingOf(d) == {k \in IntervalsOf(d) : Intervals[k].Downtime_Status = "Ongoing"}

\* C15: each device has at most one Ongoing interval after classification
\* (ongoing_count is 0 or 1); when it has one, the interval belongs to the
\* last event of the device's ordered sequence and last_offline_at is that
\* interval's offline_at.
C15_OneOngoingAtTheEnd ==
    \A d \in Devices :
        /\ Cardinality(OngoingOf(d)) <= 1
        /\ \A n \in SummaryOf(d) : SummaryRows[n].Ongoing_Count \in {0, 1}
        /\ \A k \in OngoingOf(d) :
              /\ EventOf(k) = LastEventOf(d)
              /\ \A n \in SummaryOf(d) :
                    SummaryRows[n].Last_Offline_Time = Intervals[k].Offline_Time

====
